---- MODULE Spec2Model ----
(***************************************************************************)
(* Model of neural_network.py: DenseLayer, NeuralNetwork.forward and the   *)
(* training loop NeuralNetwork.train, together with the contracts of the   *)
(* collaborators it drives (MLArray, the loss function, the optimizer).    *)
(*                                                                         *)
(* The numeric payload of an array is abstracted to the finite ring        *)
(* Z_Modulus; a matrix is a tuple of rows, as the nested lists handed to   *)
(* MLArray are.                                                            *)
(***************************************************************************)
EXTENDS Integers, Sequences, FiniteSets, TLC

\* ----------------------------------------------------------------- bounds
\* Largest `epochs` argument a caller passes to train.
MaxEpochs == 2
\* Largest `print_every` argument a caller passes to train (0 .. MaxPrintEvery, or None).
MaxPrintEvery == 2
\* Number of train calls a caller makes.
MaxCalls == 2
\* Payload values are kept in 0 .. Modulus-1.
Modulus == 5

None == "None"

\* the optional argument print_every: <<>> when unset, <<k>> when set to k
Unset == <<>>

\* -------------------------------------------------------------- matrices
Norm(x) == x % Modulus

\* The signed reading of a payload value, used where the sign matters (relu).
Signed(x) == IF 2 * Norm(x) > Modulus THEN Norm(x) - Modulus ELSE Norm(x)

Rows(A) == Len(A)

Cols(A) == Len(A[1])

Shape(A) == <<Rows(A), Cols(A)>>

\* A function over 1..n as the tuple of its values (TLC then holds the values
\* themselves, not the expression that gives them).
Tuple(f) == f \o <<>>

Fill(r, c, v) == Tuple([i \in 1..r |-> Tuple([j \in 1..c |-> v])])

RECURSIVE SumTo(_, _)
\* sum of f[1] .. f[n]
SumTo(f, n) == IF n = 0 THEN 0 ELSE f[n] + SumTo(f, n - 1)

\* A @ B; defined when Cols(A) = Rows(B)
MatMul(A, B) ==
    Tuple([i \in 1..Rows(A) |-> Tuple([j \in 1..Cols(B) |->
        Norm(SumTo([k \in 1..Cols(A) |-> A[i][k] * B[k][j]], Cols(A)))])])

Transpose(A) == Tuple([j \in 1..Cols(A) |-> Tuple([i \in 1..Rows(A) |-> A[i][j]])])

\* elementwise A + B of two equally shaped matrices
MatAdd(A, B) == Tuple([i \in 1..Rows(A) |-> Tuple([j \in 1..Cols(A) |-> Norm(A[i][j] + B[i][j])])])

MatSub(A, B) == Tuple([i \in 1..Rows(A) |-> Tuple([j \in 1..Cols(A) |-> Norm(A[i][j] - B[i][j])])])

\* elementwise product
MatMulElem(A, B) == Tuple([i \in 1..Rows(A) |-> Tuple([j \in 1..Cols(A) |-> Norm(A[i][j] * B[i][j])])])

MatScale(k, A) == Tuple([i \in 1..Rows(A) |-> Tuple([j \in 1..Cols(A) |-> Norm(k * A[i][j])])])

\* Z + b with b of shape (1, Cols(Z)) broadcast over the rows of Z
AddRow(Z, b) == Tuple([i \in 1..Rows(Z) |-> Tuple([j \in 1..Cols(Z) |-> Norm(Z[i][j] + b[1][j])])])

\* the (1, Cols(G)) matrix of column sums: the gradient of a broadcast row
ColSums(G) ==
    <<Tuple([j \in 1..Cols(G) |-> Norm(SumTo([i \in 1..Rows(G) |-> G[i][j]], Rows(G)))])>>

\* sum of all entries, as a (1, 1) matrix
SumAll(A) == <<<<Norm(SumTo([i \in 1..Rows(A) |-> SumTo(A[i], Cols(A))], Rows(A)))>>>>

IsZero(A) == \A i \in 1..Rows(A) : \A j \in 1..Cols(A) : A[i][j] = 0

\* --------------------------------------------------------------- MLArray
\* A differentiable array: payload, accumulated gradient, and the labels of the
\* operations recorded as having produced it.
MLArrayOf(data) ==
    [data |-> data, grad |-> Fill(Rows(data), Cols(data), 0), graph |-> {}]

\* ml_array.zeros(r, c)
zeros(r, c) == MLArrayOf(Fill(r, c, 0))

\* the result of an operation: fresh gradient slot, recorded producers
OpResult(data, ops) ==
    [data |-> data, grad |-> Fill(Rows(data), Cols(data), 0), graph |-> ops]

\* MLArray.restart(): zero the gradient slot and drop the recorded graph
restart(a) ==
    [a EXCEPT !.grad = Fill(Rows(a.data), Cols(a.data), 0), !.graph = {}]

IsClean(a) == IsZero(a.grad) /\ a.graph = {}

\* ------------------------------------------------------------ activation
Activations == {"linear", "relu"}

ActValue(f, x) == IF f = "relu" THEN (IF Signed(x) > 0 THEN Norm(x) ELSE 0) ELSE Norm(x)

ActSlope(f, x) == IF f = "relu" THEN (IF Signed(x) > 0 THEN 1 ELSE 0) ELSE 1

Activate(f, Z) == Tuple([i \in 1..Rows(Z) |-> Tuple([j \in 1..Cols(Z) |-> ActValue(f, Z[i][j])])])

ActivateSlope(f, Z) == Tuple([i \in 1..Rows(Z) |-> Tuple([j \in 1..Cols(Z) |-> ActSlope(f, Z[i][j])])])

\* ----------------------------------------------------------- initializer
\* WeightInitializer.initialize(input_size, output_size): the drawn matrix is a
\* function of the seed of the draw.
Initialize(input_size, output_size, seed) ==
    MLArrayOf(Tuple([i \in 1..input_size |->
                        Tuple([j \in 1..output_size |-> (seed + i + j) % 2])]))

\* ------------------------------------------------------------ DenseLayer
\* DenseLayer.__init__
DenseLayerInit(input_size, output_size, activation_function, seed) ==
    [weights |-> Initialize(input_size, output_size, seed),
     biases |-> zeros(1, output_size),
     activation_function |-> activation_function]

\* input_data @ self.weights + self.biases
Linear(layer, data) == AddRow(MatMul(data, layer.weights.data), layer.biases.data)

\* mutant of DenseLayerForward: the layer keeps its output as its biases
DenseLayerForward_KeepsOutput(layer, input_data) ==
    IF Cols(input_data.data) # Rows(layer.weights.data)
       \/ Cols(layer.weights.data) # Cols(layer.biases.data)
    THEN [self |-> layer, raised |-> TRUE, value |-> input_data]
    ELSE LET z == AddRow(MatMul(input_data.data, layer.weights.data), layer.biases.data)
         IN  [self |-> [layer EXCEPT !.biases.data = ColSums(z)], raised |-> FALSE,
              value |-> [data |-> Tuple([i \in 1..Rows(z) |-> Tuple([j \in 1..Cols(z) |->
                                     IF layer.activation_function = "relu" /\ 2 * z[i][j] > Modulus
                                     THEN 0 ELSE z[i][j]])]),
                         grad |-> Fill(Rows(z), Cols(z), 0),
                         graph |-> {"matmul", "add", layer.activation_function}]]

\* DenseLayer.forward(self, input_data): the layer after the call, whether the
\* call raised (incompatible shapes), and the value returned.
DenseLayerForward(layer, input_data) ==
    IF Cols(input_data.data) # Rows(layer.weights.data)
       \/ Cols(layer.weights.data) # Cols(layer.biases.data)
    THEN [self |-> layer, raised |-> TRUE, value |-> input_data]
    ELSE [self |-> layer, raised |-> FALSE,
          value |-> OpResult(Activate(layer.activation_function, Linear(layer, input_data.data)),
                             {"matmul", "add", layer.activation_function})]

RECURSIVE ForwardFrom(_, _, _)
\* the loop of NeuralNetwork.forward from layer i on
ForwardFrom(layers, i, input_data) ==
    IF i > Len(layers)
    THEN [layers |-> layers, raised |-> FALSE, value |-> input_data]
    ELSE LET r == DenseLayerForward(layers[i], input_data)
             ls == [layers EXCEPT ![i] = r.self]
         IN  IF r.raised
             THEN [layers |-> ls, raised |-> TRUE, value |-> input_data]
             ELSE ForwardFrom(ls, i + 1, r.value)

\* NeuralNetwork.forward(self, input_data)
NeuralNetworkForward(layers, input_data) == ForwardFrom(layers, 1, input_data)

\* ------------------------------------------------------------------ loss
\* loss_function(y_pred, y): the sum of squared errors, a single-element array
\* (losses.mse_loss without its 1/n factor, which Z_Modulus cannot express).
LossFunction(y_pred, y) ==
    IF Shape(y_pred.data) # Shape(y.data)
    THEN [raised |-> TRUE, value |-> y_pred]
    ELSE LET d == MatSub(y_pred.data, y.data)
         IN  [raised |-> FALSE, value |-> OpResult(SumAll(MatMulElem(d, d)), {"loss"})]

\* -------------------------------------------------------------- backward
RECURSIVE LayerInputs(_, _, _)
\* the inputs the layers i.. saw in the forward pass that started from `data`
LayerInputs(layers, i, data) ==
    IF i > Len(layers) THEN <<>>
    ELSE <<data>> \o LayerInputs(layers, i + 1,
                        Activate(layers[i].activation_function, Linear(layers[i], data)))

RECURSIVE BackFrom(_, _, _, _)
\* reverse-mode accumulation through layers i, i-1, .., 1; G is the gradient of
\* the loss with respect to the output of layer i.
BackFrom(layers, ins, i, G) ==
    IF i = 0 THEN [layers |-> layers, G |-> G]
    ELSE LET l == layers[i]
             dz == MatMulElem(G, ActivateSlope(l.activation_function, Linear(l, ins[i])))
             ls == [layers EXCEPT
                      ![i].weights.grad = MatAdd(@, MatMul(Transpose(ins[i]), dz)),
                      ![i].biases.grad = MatAdd(@, ColSums(dz))]
         IN  BackFrom(ls, ins, i - 1, MatMul(dz, Transpose(l.weights.data)))

\* loss.backward() for loss = LossFunction(NeuralNetworkForward(layers, X), y):
\* every array that fed the loss has its share added to its gradient slot.
Backward(layers, X, y, y_pred, loss) ==
    LET G == MatScale(2, MatSub(y_pred.data, y.data))
        b == BackFrom(layers, LayerInputs(layers, 1, X.data), Len(layers), G)
    IN  [layers |-> b.layers,
         X |-> [X EXCEPT !.grad = MatAdd(@, b.G)],
         y |-> [y EXCEPT !.grad = MatSub(@, G)],
         y_pred |-> [y_pred EXCEPT !.grad = MatAdd(@, G)],
         loss |-> [loss EXCEPT !.grad = MatAdd(@, Fill(1, 1, 1))]]

\* ------------------------------------------------------------- optimizer
\* optimizers.SGD(): an optimizer object. `state` is its per-layer-index running
\* statistic; `users` records on whose behalf each index was used.
NewOptimizer == [state |-> [k \in {} |-> 0], users |-> [k \in {} |-> {}]]

\* Optimizer.update(layer, layer_idx): the optimizer after the call, whether it
\* raised, and the returned (new_weights, new_biases).
OptimizerUpdate(optimizer, layer, layer_idx, who) ==
    LET known == layer_idx \in DOMAIN optimizer.state
        prev == IF known THEN optimizer.state[layer_idx]
                ELSE [weights |-> Fill(Rows(layer.weights.data), Cols(layer.weights.data), 0),
                      biases |-> Fill(Rows(layer.biases.data), Cols(layer.biases.data), 0)]
        keys == DOMAIN optimizer.state \cup {layer_idx}
        used == [k \in DOMAIN optimizer.users \cup {layer_idx} |->
                   (IF k \in DOMAIN optimizer.users THEN optimizer.users[k] ELSE {})
                   \cup (IF k = layer_idx THEN {who} ELSE {})]
    IN  IF Shape(prev.weights) # Shape(layer.weights.grad)
           \/ Shape(prev.biases) # Shape(layer.biases.grad)
        THEN [optimizer |-> [optimizer EXCEPT !.users = used], raised |-> TRUE,
              weights |-> layer.weights, biases |-> layer.biases]
        ELSE LET v == [weights |-> MatAdd(prev.weights, layer.weights.grad),
                       biases |-> MatAdd(prev.biases, layer.biases.grad)]
             IN  [optimizer |->
                    [state |-> [k \in keys |-> IF k = layer_idx THEN v ELSE optimizer.state[k]],
                     users |-> used],
                  raised |-> FALSE,
                  weights |-> OpResult(MatSub(layer.weights.data, v.weights), {"optimizer.update"}),
                  biases |-> OpResult(MatSub(layer.biases.data, v.biases), {"optimizer.update"})]

\* DenseLayer.update(self, optimizer, layer_idx)
DenseLayerUpdate(layer, optimizer, layer_idx, who) ==
    LET r == OptimizerUpdate(optimizer, layer, layer_idx, who)
    IN  [self |-> IF r.raised THEN layer
                  ELSE [layer EXCEPT !.weights = r.weights, !.biases = r.biases],
         optimizer |-> r.optimizer,
         raised |-> r.raised]

\* ------------------------------------------------------------------ state
VARIABLES
    optimizers,   \* the optimizer objects, by identity (index)
    nets,         \* the NeuralNetwork objects the caller holds, by name
    frame,        \* the running call of NeuralNetwork.train, or the idle frame
    shadow,       \* the same call, on a copy of the objects, with print_every unset
    fwd,          \* the caller's last call of NeuralNetwork.forward
    calls         \* number of train calls made

vars == <<optimizers, nets, frame, shadow, fwd, calls>>

\* The optimizers.SGD() instance built once, when `def __init__` is evaluated.
DefaultOptimizer == 1

Running == {"forward", "loss", "backward", "update", "reset", "report"}

Finished == {"done", "raised"}

IdleFrame ==
    [pc |-> "idle", self |-> None, X |-> zeros(1, 1), y |-> zeros(1, 1),
     epochs |-> 0, print_every |-> Unset, epoch |-> 0, idx |-> 0,
     y_pred |-> zeros(1, 1), loss |-> zeros(1, 1),
     out |-> <<>>, trace |-> <<>>, start |-> <<>>, clean |-> TRUE]

NoWorld == [nets |-> [n \in {} |-> 0], optimizers |-> <<>>, frame |-> IdleFrame]

NoForward == [called |-> FALSE, self |-> None, input |-> zeros(1, 1), before |-> <<>>,
              raised |-> FALSE, value |-> zeros(1, 1)]

World == [nets |-> nets, optimizers |-> optimizers, frame |-> frame]

Event(step, epoch, pos, idx) ==
    [step |-> step, at |-> step, epoch |-> epoch, pos |-> pos, idx |-> idx]

\* mutant of Raise: the exception is caught and the epoch tried again
Raise_Retry(f, step) ==
    [f EXCEPT !.pc = "forward",
              !.trace = Append(@, [step |-> "fault", at |-> step, epoch |-> f.epoch,
                                   pos |-> -1, idx |-> -1])]

\* an exception leaves train: nothing catches it
Raise(f, step) ==
    [f EXCEPT !.pc = "raised",
              !.trace = Append(@, [Event("fault", f.epoch, -1, -1) EXCEPT !.at = step])]

LayersClean(layers) ==
    \A i \in 1..Len(layers) : IsClean(layers[i].weights) /\ IsClean(layers[i].biases)

\* ------------------------------------------------------- NeuralNetwork.train
\* mutant of InRange: the loop runs one epoch too many
InRange_OneMore(epoch, epochs) == epoch <= epochs

\* `for epoch in range(epochs)`: whether the loop body runs for this epoch
InRange(epoch, epochs) == epoch < epochs

\* entry of train
EnterTrain(w, n, X, y, epochs, print_every) ==
    [w EXCEPT !.frame =
        [IdleFrame EXCEPT !.pc = IF InRange(0, epochs) THEN "forward" ELSE "done",
                          !.self = n, !.X = X, !.y = y,
                          !.epochs = epochs, !.print_every = print_every,
                          !.start = w.nets[n].layers,
                          !.clean = IsClean(X) /\ IsClean(y) /\ LayersClean(w.nets[n].layers)]]

\* y_pred = self.forward(X)
StepForward(w) ==
    LET f == w.frame
        r == NeuralNetworkForward(w.nets[f.self].layers, f.X)
    IN  [w EXCEPT !.nets[f.self].layers = r.layers,
                  !.frame = IF r.raised THEN Raise(f, "forward")
                            ELSE [f EXCEPT !.y_pred = r.value, !.pc = "loss",
                                           !.trace = Append(@, Event("forward", f.epoch, -1, -1))]]

\* loss = self.loss_function(y_pred, y)
StepLoss(w) ==
    LET f == w.frame
        r == LossFunction(f.y_pred, f.y)
    IN  [w EXCEPT !.frame = IF r.raised THEN Raise(f, "loss")
                            ELSE [f EXCEPT !.loss = r.value, !.pc = "backward",
                                           !.trace = Append(@, Event("loss", f.epoch, -1, -1))]]

\* mutant of StepBackward: the gradients are reset before the layers are updated
StepBackward_ThenReset(w) ==
    LET f == w.frame
        b == Backward(w.nets[f.self].layers, f.X, f.y, f.y_pred, f.loss)
    IN  [w EXCEPT !.nets[f.self].layers = b.layers,
                  !.frame = [f EXCEPT !.X = b.X, !.y = b.y, !.y_pred = b.y_pred,
                                      !.loss = b.loss, !.pc = "reset", !.idx = 0,
                                      !.trace = Append(@, Event("backward", f.epoch, -1, -1))]]

\* loss.backward()
StepBackward(w) ==
    LET f == w.frame
        b == Backward(w.nets[f.self].layers, f.X, f.y, f.y_pred, f.loss)
    IN  [w EXCEPT !.nets[f.self].layers = b.layers,
                  !.frame = [f EXCEPT !.X = b.X, !.y = b.y, !.y_pred = b.y_pred,
                                      !.loss = b.loss, !.pc = "update", !.idx = 0,
                                      !.trace = Append(@, Event("backward", f.epoch, -1, -1))]]

\* mutant of UpdateIndex: every layer is updated under index 0
UpdateIndex_Zero(pos) == 0

\* `for idx, layer in enumerate(self.layers)`: the index passed for position pos
UpdateIndex(pos) == pos

\* layer.update(self.optimizer, idx) for the layer at position pos (0-based)
UpdateAt(w, n, pos) ==
    LET net == w.nets[n]
        r == DenseLayerUpdate(net.layers[pos + 1], w.optimizers[net.optimizer],
                              UpdateIndex(pos), <<n, pos>>)
    IN  [world |-> [w EXCEPT !.nets[n].layers[pos + 1] = r.self,
                             !.optimizers[net.optimizer] = r.optimizer],
         raised |-> r.raised]

\* one iteration of the update loop
StepUpdate(w) ==
    LET f == w.frame
        r == UpdateAt(w, f.self, f.idx)
        last == f.idx + 1 >= Len(w.nets[f.self].layers)
    IN  [r.world EXCEPT !.frame =
            IF r.raised THEN Raise(f, "update")
            ELSE [f EXCEPT !.idx = IF last THEN 0 ELSE f.idx + 1,
                           !.pc = IF last THEN "reset" ELSE "update",
                           !.trace = Append(@, Event("update", f.epoch, f.idx, UpdateIndex(f.idx)))]]

\* mutant of StepReset: X and y are not restarted
StepReset_KeepsInputs(w) ==
    LET f == w.frame
        layers == w.nets[f.self].layers
    IN  [w EXCEPT !.nets[f.self].layers =
                      Tuple([i \in 1..Len(layers) |->
                          [layers[i] EXCEPT !.weights = restart(@), !.biases = restart(@)]]),
                  !.frame = [f EXCEPT !.pc = "report",
                                      !.trace = Append(@, Event("reset", f.epoch, -1, -1))]]

\* mutant of StepReset: the restarts sit in the branch that prints
StepReset_WhenReporting(w) ==
    LET f == w.frame
        layers == w.nets[f.self].layers
        prints == f.print_every = Unset
                  \/ (f.print_every[1] # 0 /\ (f.epoch + 1) % f.print_every[1] = 0)
    IN  [w EXCEPT !.nets[f.self].layers =
                      IF prints
                      THEN Tuple([i \in 1..Len(layers) |->
                              [layers[i] EXCEPT !.weights = restart(@), !.biases = restart(@)]])
                      ELSE layers,
                  !.frame = [f EXCEPT !.X = IF prints THEN restart(@) ELSE @,
                                      !.y = IF prints THEN restart(@) ELSE @,
                                      !.pc = "report",
                                      !.trace = Append(@, Event("reset", f.epoch, -1, -1))]]

\* X.restart(); y.restart(); and restart of every layer's weights and biases
StepReset(w) ==
    LET f == w.frame
        layers == w.nets[f.self].layers
    IN  [w EXCEPT !.nets[f.self].layers =
                      Tuple([i \in 1..Len(layers) |->
                          [layers[i] EXCEPT !.weights = restart(@), !.biases = restart(@)]]),
                  !.frame = [f EXCEPT !.X = restart(@), !.y = restart(@), !.pc = "report",
                                      !.trace = Append(@, Event("reset", f.epoch, -1, -1))]]

\* mutant of Reports: the 0-based epoch is tested
Reports_ZeroBased(print_every, epoch) ==
    IF print_every = Unset THEN TRUE ELSE epoch % print_every[1] = 0

\* whether the epoch (0-based) is reported; print_every = 0 makes `%` raise
Reports(print_every, epoch) ==
    IF print_every = Unset THEN TRUE ELSE (epoch + 1) % print_every[1] = 0

\* the print at the end of the loop body, and the step of the for loop
StepReport(w) ==
    LET f == w.frame
        more == InRange(f.epoch + 1, f.epochs)
    IN  IF f.print_every # Unset /\ f.print_every[1] = 0
        THEN [w EXCEPT !.frame = Raise(f, "report")]
        ELSE [w EXCEPT !.frame =
                [f EXCEPT !.out = IF Reports(f.print_every, f.epoch)
                                  THEN Append(@, [epoch |-> f.epoch + 1, epochs |-> f.epochs,
                                                  loss |-> f.loss.data])
                                  ELSE @,
                          !.epoch = IF more THEN f.epoch + 1 ELSE f.epoch,
                          !.pc = IF more THEN "forward" ELSE "done",
                          !.start = w.nets[f.self].layers]]

\* the step train takes next from world w
Step(w) ==
    CASE w.frame.pc = "forward" -> StepForward(w)
      [] w.frame.pc = "loss" -> StepLoss(w)
      [] w.frame.pc = "backward" -> StepBackward(w)
      [] w.frame.pc = "update" -> StepUpdate(w)
      [] w.frame.pc = "reset" -> StepReset(w)
      [] w.frame.pc = "report" -> StepReport(w)
      [] OTHER -> w

\* ----------------------------------------------------------------- caller
LayerConfigs ==
    { <<[input_size |-> 2, output_size |-> 2, activation_function |-> "relu"],
        [input_size |-> 2, output_size |-> 1, activation_function |-> "linear"]>>,
      <<[input_size |-> 2, output_size |-> 1, activation_function |-> "linear"]>>,
      <<[input_size |-> 2, output_size |-> 1, activation_function |-> "linear"],
        [input_size |-> 2, output_size |-> 1, activation_function |-> "linear"]>> }

Seeds == {0, 1}

\* how the caller gives the optimizer argument of NeuralNetwork(...)
OptimizerArgs == {"omitted", "None", "given"}

Datasets ==
    { [X |-> <<<<0, 1>>, <<1, 1>>>>, y |-> <<<<1>>, <<0>>>>],
      [X |-> <<<<0, 1>>, <<1, 1>>>>, y |-> <<<<1, 0>>>>],
      [X |-> <<<<1>>, <<1>>>>, y |-> <<<<1>>, <<0>>>>] }

\* the (X, y) pairs a caller passes to train: fresh arrays of each dataset, and
\* one pair whose X still carries a gradient from an earlier use
TrainArgs ==
    {[X |-> MLArrayOf(d.X), y |-> MLArrayOf(d.y)] : d \in Datasets}
    \cup {[X |-> [MLArrayOf(<<<<0, 1>>, <<1, 1>>>>) EXCEPT !.grad = <<<<1, 0>>, <<0, 0>>>>],
            y |-> MLArrayOf(<<<<1>>, <<0>>>>)]}

PrintEveryArgs == {Unset} \cup {<<k>> : k \in 0..MaxPrintEvery}

\* NeuralNetwork.__init__(layers, loss_function, optimizer): the objects after
\* the construction of network n. The default of `optimizer` is the one
\* instance built when the def was evaluated.
NeuralNetworkInit(w, n, layers, optimizer_arg) ==
    LET fresh == optimizer_arg # "omitted"
        optimizer == IF optimizer_arg = "omitted" THEN DefaultOptimizer
                     ELSE Len(w.optimizers) + 1
    IN  [w EXCEPT !.optimizers = IF fresh THEN Append(@, NewOptimizer) ELSE @,
                  !.nets = [m \in DOMAIN w.nets \cup {n} |->
                              IF m = n
                              THEN [layers |-> layers, optimizer |-> optimizer,
                                    optimizer_arg |-> optimizer_arg]
                              ELSE w.nets[m]]]

Install(w) ==
    /\ nets' = w.nets
    /\ optimizers' = w.optimizers
    /\ frame' = w.frame

\* nn = NeuralNetwork([DenseLayer(..), ..], loss, optimizer)
Construct(n) ==
    /\ frame.pc = "idle"
    /\ n \notin DOMAIN nets
    /\ \E cfg \in LayerConfigs, seed \in Seeds, arg \in OptimizerArgs :
          Install(NeuralNetworkInit(World, n,
                    Tuple([i \in 1..Len(cfg) |->
                        DenseLayerInit(cfg[i].input_size, cfg[i].output_size,
                                       cfg[i].activation_function, seed)]),
                    arg))
    /\ fwd' = NoForward
    /\ UNCHANGED <<shadow, calls>>

\* nn.forward(MLArray(data)) called by the caller
CallForward(n) ==
    /\ frame.pc = "idle"
    /\ n \in DOMAIN nets
    /\ \E d \in Datasets :
          LET r == NeuralNetworkForward(nets[n].layers, MLArrayOf(d.X))
          IN  /\ nets' = [nets EXCEPT ![n].layers = r.layers]
              /\ fwd' = [called |-> TRUE, self |-> n, input |-> MLArrayOf(d.X),
                         before |-> nets[n].layers, raised |-> r.raised, value |-> r.value]
    /\ UNCHANGED <<optimizers, frame, shadow, calls>>

\* nn.train(MLArray(X), MLArray(y), epochs, print_every) called by the caller
CallTrain(n, print_every_args) ==
    /\ frame.pc = "idle"
    /\ n \in DOMAIN nets
    /\ calls < MaxCalls
    /\ \E a \in TrainArgs, epochs \in 0..MaxEpochs, print_every \in print_every_args :
          /\ Install(EnterTrain(World, n, a.X, a.y, epochs, print_every))
          /\ shadow' = EnterTrain(World, n, a.X, a.y, epochs, Unset)
    /\ calls' = calls + 1
    /\ fwd' = NoForward

\* the shadow call takes the step it is at, while it runs
ShadowStep == shadow' = IF shadow.frame.pc \in Running THEN Step(shadow) ELSE shadow

Forward ==
    /\ frame.pc = "forward"
    /\ Install(StepForward(World))
    /\ ShadowStep
    /\ UNCHANGED <<fwd, calls>>

Loss ==
    /\ frame.pc = "loss"
    /\ Install(StepLoss(World))
    /\ ShadowStep
    /\ UNCHANGED <<fwd, calls>>

Back ==
    /\ frame.pc = "backward"
    /\ Install(StepBackward(World))
    /\ ShadowStep
    /\ UNCHANGED <<fwd, calls>>

Update ==
    /\ frame.pc = "update"
    /\ Install(StepUpdate(World))
    /\ ShadowStep
    /\ UNCHANGED <<fwd, calls>>

Reset ==
    /\ frame.pc = "reset"
    /\ Install(StepReset(World))
    /\ ShadowStep
    /\ UNCHANGED <<fwd, calls>>

Report ==
    /\ frame.pc = "report"
    /\ Install(StepReport(World))
    /\ ShadowStep
    /\ UNCHANGED <<fwd, calls>>

\* the call has ended and the reference call has not: it runs on
ShadowRun ==
    /\ frame.pc \in Finished
    /\ shadow.frame.pc \in Running
    /\ ShadowStep
    /\ UNCHANGED <<optimizers, nets, frame, fwd, calls>>

\* train returns, or its exception reaches the caller
Return ==
    /\ frame.pc \in Finished
    /\ shadow.frame.pc \notin Running
    /\ frame' = IdleFrame
    /\ shadow' = NoWorld
    /\ UNCHANGED <<optimizers, nets, fwd, calls>>

Init ==
    /\ optimizers = <<NewOptimizer>>
    /\ nets = [n \in {} |-> 0]
    /\ frame = IdleFrame
    /\ shadow = NoWorld
    /\ fwd = NoForward
    /\ calls = 0

TrainStep == Forward \/ Loss \/ Back \/ Update \/ Reset \/ Report

\* one network, trained and evaluated by its caller
Next ==
    \/ Construct("nn")
    \/ CallForward("nn")
    \/ CallTrain("nn", PrintEveryArgs)
    \/ TrainStep
    \/ ShadowRun
    \/ Return

Spec == Init /\ [][Next]_vars

\* two networks held by the same caller, which trains them
NextTwo ==
    \/ \E n \in {"nn", "nn2"} : Construct(n)
    \/ \E n \in {"nn", "nn2"} : CallTrain(n, {Unset, <<0>>})
    \/ TrainStep
    \/ ShadowRun
    \/ Return

SpecTwo == Init /\ [][NextTwo]_vars

\* ================================================================= claims
Layers == IF frame.self \in DOMAIN nets THEN nets[frame.self].layers ELSE <<>>

InCall == frame.pc # "idle"

Count(trace, step) == Cardinality({i \in 1..Len(trace) : trace[i].step = step})

HasFault(trace) == \E i \in 1..Len(trace) : trace[i].step = "fault"

\* the steps of one epoch of a network of n layers, in order
EpochSteps(n) ==
    <<"forward", "loss", "backward">> \o [i \in 1..n |-> "update"] \o <<"reset">>

\* every step ran exactly k times
RanTimes(k) ==
    /\ \A step \in {"forward", "loss", "backward", "reset"} : Count(frame.trace, step) = k
    /\ Count(frame.trace, "update") = k * Len(Layers)

\* C1 as stated: train always runs exactly `epochs` iterations (each of forward,
\* loss, backward, update, reset happens exactly `epochs` times) and then
\* terminates, whatever happens in the loop.
C1_AlwaysEpochsIterations ==
    frame.pc \in Finished => frame.pc = "done" /\ RanTimes(frame.epochs)

\* the place of a step within its epoch
StepPlace(f) ==
    CASE f.pc = "forward" -> 0
      [] f.pc = "loss" -> 1
      [] f.pc = "backward" -> 2
      [] f.pc = "update" -> 3 + f.idx
      [] f.pc = "reset" -> 3 + Len(Layers)
      [] f.pc = "report" -> 4 + Len(Layers)
      [] OTHER -> 0

\* an upper bound of the steps a call has left
StepsLeft(f) ==
    IF f.pc \in Running THEN (f.epochs - f.epoch) * (5 + Len(Layers)) - StepPlace(f) ELSE 0

\* C1 amended: the loop has no exit of its own. A call in which no step raises
\* runs exactly `epochs` iterations and returns; a call leaves the loop early
\* only by a step raising, and it then ends at that step. Every step of a
\* running call brings it nearer its end, so the call terminates.
C1_EpochsIterationsUnlessRaised ==
    /\ [](/\ frame.pc = "done" => RanTimes(frame.epochs) /\ ~HasFault(frame.trace)
          /\ frame.pc \in Running =>
                /\ ~HasFault(frame.trace)
                /\ InRange(frame.epoch, frame.epochs)
                /\ Count(frame.trace, "reset") \in {frame.epoch, frame.epoch + 1}
          /\ frame.pc = "raised" =>
                /\ frame.trace[Len(frame.trace)].step = "fault"
                /\ Count(frame.trace, "fault") = 1)
    /\ [][frame.pc \in Running =>
             /\ frame'.pc \in Running \cup Finished
             /\ StepsLeft(frame') < StepsLeft(frame)
             /\ StepsLeft(frame') >= 0]_vars

C1_Witness ==
    /\ frame.pc = "done"
    /\ frame.epochs = MaxEpochs
    /\ Len(Layers) = 2
    /\ Count(frame.trace, "update") = 2 * MaxEpochs

\* C2: within every epoch the steps occur in the order forward, loss, backward,
\* update of layer 0 .. n-1, reset; the k-th completed step of the call is the
\* step of that place in that cycle, so no update precedes its epoch's backward,
\* no reset precedes the update of every layer, and no forward of the next epoch
\* precedes the reset.
C2_StepsInOrder ==
    InCall =>
        LET cycle == EpochSteps(Len(Layers))
            done == SelectSeq(frame.trace, LAMBDA e : e.step # "fault")
        IN  /\ \A k \in 1..Len(done) :
                  /\ done[k].step = cycle[((k - 1) % Len(cycle)) + 1]
                  /\ done[k].epoch = (k - 1) \div Len(cycle)
                  /\ done[k].step = "update" => done[k].pos = ((k - 1) % Len(cycle)) - 3
            /\ frame.pc \in {"forward", "loss", "backward", "update", "reset"} =>
                  frame.pc = cycle[(Len(done) % Len(cycle)) + 1]
            /\ frame.pc = "report" => Len(done) % Len(cycle) = 0 /\ Len(done) > 0

C2_Witness ==
    /\ frame.pc = "loss"
    /\ frame.epoch = 1
    /\ Len(Layers) = 2
    /\ Count(frame.trace, "reset") = 1

\* C4: in every epoch each layer's update is called exactly once, in index
\* order from 0, with the index equal to the layer's position, the same in every
\* epoch; so the state the network's optimizer keeps for index k is used, for
\* this network, on behalf of the layer at position k only.
C4_UpdateIndexIsPosition ==
    InCall =>
        /\ \A k \in 1..Len(frame.trace) :
              frame.trace[k].step = "update" =>
                  /\ frame.trace[k].idx = frame.trace[k].pos
                  /\ frame.trace[k].pos \in 0..(Len(Layers) - 1)
                  /\ \A j \in 1..Len(frame.trace) :
                        /\ frame.trace[j].step = "update"
                        /\ frame.trace[j].epoch = frame.trace[k].epoch
                        /\ frame.trace[j].pos = frame.trace[k].pos
                        => j = k
                  /\ frame.trace[k].pos > 0 =>
                        /\ frame.trace[k - 1].step = "update"
                        /\ frame.trace[k - 1].pos = frame.trace[k].pos - 1
                        /\ frame.trace[k - 1].epoch = frame.trace[k].epoch
        /\ frame.pc = "reset" =>
              \A p \in 0..(Len(Layers) - 1) :
                  \E k \in 1..Len(frame.trace) :
                      /\ frame.trace[k].step = "update"
                      /\ frame.trace[k].epoch = frame.epoch
                      /\ frame.trace[k].pos = p
        /\ LET o == optimizers[nets[frame.self].optimizer]
           IN  \A k \in DOMAIN o.users :
                   \A u \in o.users[k] : u[1] = frame.self => u[2] = k

C4_Witness ==
    /\ frame.pc = "reset"
    /\ frame.epoch = 1
    /\ Len(Layers) = 2
    /\ DOMAIN optimizers[nets[frame.self].optimizer].users = {0, 1}

\* the epochs (1-based) among 1..n that are reported
RECURSIVE ReportedUpTo(_, _)
ReportedUpTo(print_every, n) ==
    IF n = 0 THEN <<>>
    ELSE ReportedUpTo(print_every, n - 1)
         \o (IF print_every = Unset \/ n % print_every[1] = 0 THEN <<n>> ELSE <<>>)

\* the epochs whose report step has been taken
Reported == IF frame.pc = "done" THEN frame.epochs ELSE frame.epoch

RestartAll(layers) ==
    Tuple([i \in 1..Len(layers) |->
        [layers[i] EXCEPT !.weights = restart(@), !.biases = restart(@)]])

\* what the backward pass of the running epoch produces on arrays that carried
\* no gradient before it
ThisEpochsGradients ==
    Backward(RestartAll(frame.start), restart(frame.X), restart(frame.y),
             [frame.y_pred EXCEPT !.grad = Fill(Rows(@), Cols(@), 0)],
             [frame.loss EXCEPT !.grad = Fill(1, 1, 0)])

\* C3: gradients never leak across epochs. If X, y and the layers' arrays
\* carried no gradient and no graph when train was called, they carry none at
\* the start of every epoch's forward pass; the gradients a layer's update
\* consumes are exactly those of this epoch's backward pass, and once consumed
\* they are gone (the layer holds fresh arrays), each layer being updated at
\* most once per epoch.
C3_NoGradientLeak ==
    InCall /\ frame.clean =>
        /\ frame.pc = "forward" =>
              IsClean(frame.X) /\ IsClean(frame.y) /\ LayersClean(Layers)
        /\ frame.pc = "update" =>
              LET g == ThisEpochsGradients
              IN  /\ frame.X.grad = g.X.grad
                  /\ frame.y.grad = g.y.grad
                  /\ \A p \in 1..Len(Layers) :
                        IF p > frame.idx
                        THEN /\ Layers[p].weights.grad = g.layers[p].weights.grad
                             /\ Layers[p].biases.grad = g.layers[p].biases.grad
                        ELSE /\ IsZero(Layers[p].weights.grad)
                             /\ IsZero(Layers[p].biases.grad)
        /\ \A j, k \in 1..Len(frame.trace) :
              /\ frame.trace[j].step = "update"
              /\ frame.trace[k].step = "update"
              /\ frame.trace[j].epoch = frame.trace[k].epoch
              /\ frame.trace[j].pos = frame.trace[k].pos
              => j = k

C3_Witness ==
    /\ frame.pc = "update"
    /\ frame.clean
    /\ frame.epoch = 1
    /\ frame.idx = 1
    /\ Len(Layers) = 2
    /\ ~IsZero(Layers[2].weights.grad)
    /\ ~IsZero(frame.X.grad)

\* what two runs of one call have in common when reporting leaves training alone
SameTraining(w, v) ==
    /\ w.nets = v.nets
    /\ w.optimizers = v.optimizers
    /\ w.frame.X = v.frame.X
    /\ w.frame.y = v.frame.y
    /\ SelectSeq(w.frame.trace, LAMBDA e : e.step # "fault")
         = SelectSeq(v.frame.trace, LAMBDA e : e.step # "fault")

\* C6 as stated: two runs of train that differ only in print_every (unset or
\* any value) end with the same weights, biases, optimizer state and gradient
\* state, after the same sequence of steps.
C6_AnyPrintEverySameTraining ==
    frame.pc \in Finished /\ shadow.frame.pc \in Finished => SameTraining(World, shadow)

\* C6 amended: a run with print_every set to a value other than 0 and the run
\* with print_every unset go through the same steps with the same weights,
\* biases, optimizer state and gradient state at every step, and end alike.
C6_NonZeroPrintEverySameTraining ==
    InCall /\ frame.print_every # <<0>> =>
        /\ SameTraining(World, shadow)
        /\ frame.pc = shadow.frame.pc
        /\ frame.epoch = shadow.frame.epoch
        /\ frame.idx = shadow.frame.idx
        /\ frame.y_pred = shadow.frame.y_pred
        /\ frame.loss = shadow.frame.loss

C6_Witness ==
    /\ frame.pc = "done"
    /\ shadow.frame.pc = "done"
    /\ frame.print_every = <<2>>
    /\ frame.epochs = 2
    /\ Len(frame.out) = 1
    /\ Len(shadow.frame.out) = 2
    /\ Len(Layers) = 2
    /\ DOMAIN optimizers[nets[frame.self].optimizer].state = {0, 1}

RECURSIVE Composition(_, _, _)
\* the forward transformations of layers 1..n applied in sequence order
Composition(layers, n, x) ==
    IF n = 0 THEN x ELSE DenseLayerForward(layers[n], Composition(layers, n - 1, x)).value

RECURSIVE Conformant(_, _, _)
\* whether the shapes of layers 1..n conform to an input of c columns
Conformant(layers, n, c) ==
    IF n = 0 THEN TRUE
    ELSE /\ Conformant(layers, n - 1, c)
         /\ Rows(layers[n].weights.data)
              = (IF n = 1 THEN c ELSE Cols(layers[n - 1].weights.data))

\* C7: forward does not mutate the network. After a forward call (the caller's,
\* or the one train makes) the layer sequence and every layer's weights, biases
\* and activation are as before the call; the value returned is the composition
\* of the layers' forward transformations in sequence order; and a second call
\* with the same input returns the same value.
C7_ForwardIsPure ==
    /\ [](/\ fwd.called =>
                /\ nets[fwd.self].layers = fwd.before
                /\ fwd.raised = ~Conformant(fwd.before, Len(fwd.before), Cols(fwd.input.data))
                /\ ~fwd.raised => fwd.value = Composition(fwd.before, Len(fwd.before), fwd.input)
          /\ frame.pc = "loss" =>
                /\ Layers = frame.start
                /\ frame.y_pred = Composition(frame.start, Len(frame.start), frame.X))
    /\ [][fwd.called /\ fwd'.called /\ fwd'.self = fwd.self /\ fwd'.input = fwd.input
            => fwd'.value = fwd.value /\ fwd'.raised = fwd.raised /\ nets' = nets]_vars

C7_Witness ==
    /\ fwd.called
    /\ ~fwd.raised
    /\ Len(fwd.before) = 2
    /\ calls > 0
    /\ DOMAIN optimizers[nets[fwd.self].optimizer].state = {0, 1}

LastEvent == frame.trace[Len(frame.trace)]

\* C8: a fault is fatal and propagates. The call ends at the first step that
\* raises: the fault is the last thing the call did, the epoch is not tried
\* again, and from then on the call changes nothing. A fault raised in forward
\* or in the loss leaves every layer's parameters as the previous epoch (or the
\* caller, for the first epoch) left them.
C8_FaultAborts ==
    /\ [](InCall =>
            /\ HasFault(frame.trace) <=> frame.pc = "raised"
            /\ frame.pc = "raised" =>
                  /\ LastEvent.step = "fault"
                  /\ Count(frame.trace, "fault") = 1
                  /\ LastEvent.epoch = frame.epoch
                  /\ LastEvent.at \in {"forward", "loss"} => Layers = frame.start)
    /\ [][frame.pc = "raised" =>
            /\ frame' \in {frame, IdleFrame}
            /\ nets' = nets
            /\ optimizers' = optimizers]_vars

C8_Witness ==
    /\ frame.pc = "raised"
    /\ LastEvent.at = "loss"
    /\ calls = 2
    /\ DOMAIN optimizers[nets[frame.self].optimizer].state = {0, 1}
    /\ Layers = frame.start

\* the orders in which the n layers can be updated
Orders(n) == {o \in [1..n -> 0..(n - 1)] : \A i, j \in 1..n : o[i] = o[j] => i = j}

RECURSIVE UpdateInOrder(_, _, _, _)
\* the per-layer update calls made in the given order, from the k-th on
UpdateInOrder(w, n, order, k) ==
    IF k > Len(order) THEN [world |-> w, raised |-> FALSE]
    ELSE LET r == UpdateAt(w, n, order[k])
         IN  IF r.raised THEN r ELSE UpdateInOrder(r.world, n, order, k + 1)

C10_DefaultOptimizerIsPrivate ==
    [][\A a, b \in DOMAIN nets :
          /\ a # b
          /\ nets[a].optimizer_arg = "omitted"
          /\ nets[b].optimizer_arg = "omitted"
          /\ frame.self = a
          /\ frame.pc \in Running
          => optimizers'[nets[b].optimizer].state = optimizers[nets[b].optimizer].state]_vars
====
